---------------------------- MODULE Spec2Model ----------------------------
(***************************************************************************)
(* Model of Localit_App.py: the timetable normaliser                       *)
(* (normalize_loaded_data), the next-departure calculator                  *)
(* (calculate_next_bus) and the timetable request handler                  *)
(* (show_timetable_with_mode).                                             *)
(*                                                                         *)
(* JSON values are tagged records [t |-> tag, v |-> payload]:              *)
(*   "null" (Python None), "str", "list" (payload: sequence of values),    *)
(*   "dict" (payload: sequence of <<key, value>> pairs in insertion order, *)
(*   keys unique, as a Python dict iterates).                              *)
(* TLA+ string literals are ASCII only, so the Hangul literals of the      *)
(* source are written in romanised form; each is a named definition.       *)
(***************************************************************************)
EXTENDS Integers, Sequences, FiniteSets, TLC

VARIABLES data0, data, ret, ret2, phase, DATA, request, response,
          timetable_list, now, result

vars == <<data0, data, ret, ret2, phase, DATA, request, response,
          timetable_list, now, result>>

---------------------------------------------------------------------------
(* JSON values and the Python dict / truthiness operations the code uses   *)

Null == [t |-> "null", v |-> <<>>]
Str(s) == [t |-> "str", v |-> s]
List(seq) == [t |-> "list", v |-> seq]
Dict(pairs) == [t |-> "dict", v |-> pairs]

IsDict(j) == j.t = "dict"
IsList(j) == j.t = "list"

\* bool(j): None, "", [] and {} are falsy
Truthy(j) ==
    CASE j.t = "null" -> FALSE
      [] j.t = "str" -> j.v # ""
      [] j.t = "list" -> j.v # <<>>
      [] j.t = "dict" -> j.v # <<>>

\* j1 or j2
Or(j1, j2) == IF Truthy(j1) THEN j1 ELSE j2

Keys(d) == {d.v[i][1] : i \in DOMAIN d.v}
Has(d, k) == k \in Keys(d)
Index(d, k) == CHOOSE i \in DOMAIN d.v : d.v[i][1] = k
\* d[k]
Item(d, k) == d.v[Index(d, k)][2]
\* d.get(k, default)
GetOr(d, k, default) == IF Has(d, k) THEN Item(d, k) ELSE default
\* d.get(k)
Get(d, k) == GetOr(d, k, Null)
\* list(d.values())
Values(d) == [i \in DOMAIN d.v |-> d.v[i][2]]
\* d[k] = val : an existing key keeps its position, a new key goes last
SetItem(d, k, val) ==
    IF Has(d, k)
    THEN Dict([d.v EXCEPT ![Index(d, k)] = <<k, val>>])
    ELSE Dict(Append(d.v, <<k, val>>))
\* d.setdefault(k, val)
SetDefault(d, k, val) == IF Has(d, k) THEN d ELSE SetItem(d, k, val)
\* d without key k (used only to state frame conditions)
Without(d, k) == Dict(SelectSeq(d.v, LAMBDA p : p[1] # k))

---------------------------------------------------------------------------
(* Literals of the source                                                  *)

\* "noseon": the station entry's route-table key (Hangul in the source)
KEY_ROUTES == "noseon"
\* "gita": the default region (Hangul in the source)
DEFAULT_REGION == "gita"

\* the outcome of a call: it raised, or it returned a value
Raise == [raised |-> TRUE, value |-> Null]
Return(j) == [raised |-> FALSE, value |-> j]

---------------------------------------------------------------------------
(* normalize_loaded_data                                                   *)

\* all(isinstance(v, list) for v in robj.values()) if robj else False
IsDirectMap(robj) ==
    IF Truthy(robj)
    THEN \A i \in DOMAIN robj.v : IsList(robj.v[i][2])
    ELSE FALSE

\* faulty variant: a flat list is stored under the key "destinations", not the
\* route name
RouteDestinationsFlatKey(rname, robj) ==
    IF IsDict(robj)
    THEN IF Has(robj, "destinations") /\ IsDict(Item(robj, "destinations"))
         THEN Item(robj, "destinations")
         ELSE IF IsDirectMap(robj)
              THEN robj
              ELSE IF IsList(Get(robj, "destinations"))
                   THEN Dict(<< <<rname, Get(robj, "destinations")>> >>)
                   ELSE Dict(<<>>)
    ELSE IF IsList(robj)
         THEN Dict(<< <<"destinations", robj>> >>)
         ELSE Dict(<<>>)

\* the destination mapping stored for route rname with value robj
RouteDestinations(rname, robj) ==
    IF IsDict(robj)
    THEN IF Has(robj, "destinations") /\ IsDict(Item(robj, "destinations"))
         THEN Item(robj, "destinations")
         ELSE IF IsDirectMap(robj)
              THEN robj
              ELSE IF IsList(Get(robj, "destinations"))
                   THEN Dict(<< <<rname, Get(robj, "destinations")>> >>)
                   ELSE Dict(<<>>)
    ELSE IF IsList(robj)
         THEN Dict(<< <<rname, robj>> >>)
         ELSE Dict(<<>>)

\* gps = get("gps") or get("gps_info") or get("gpsinfo") or []; a list or []
StationGps(station_obj) ==
    LET gps == Or(Or(Or(Get(station_obj, "gps"), Get(station_obj, "gps_info")),
                     Get(station_obj, "gpsinfo")), List(<<>>))
    IN  IF IsList(gps) THEN gps ELSE List(<<>>)

\* routes = station_obj.get("routes") or {}
StationRoutes(station_obj) == Or(Get(station_obj, "routes"), Dict(<<>>))

\* the loop over routes.items(), filling station_entry[KEY_ROUTES]
RECURSIVE RouteLoop(_, _, _)
RouteLoop(routes, i, acc) ==
    IF i > Len(routes.v)
    THEN acc
    ELSE RouteLoop(routes, i + 1,
                   SetItem(acc, routes.v[i][1],
                           RouteDestinations(routes.v[i][1], routes.v[i][2])))

\* the station entry built for one station record; routes.items() raises
\* AttributeError when routes is a truthy non-mapping
StationEntry(station_obj) ==
    IF ~IsDict(StationRoutes(station_obj))
    THEN Raise
    ELSE Return(Dict(<< <<"gps_info", StationGps(station_obj)>>,
                        <<KEY_ROUTES,
                          RouteLoop(StationRoutes(station_obj), 1, Dict(<<>>))>> >>))

\* region_map.setdefault(region, {})[station_name] = station_entry;
\* an unhashable region (list, dict) raises TypeError
AddStation(region_map, region, station_name, station_entry) ==
    IF region.t \in {"list", "dict"}
    THEN Raise
    ELSE Return(SetItem(region_map, region.v,
                        SetItem(GetOr(region_map, region.v, Dict(<<>>)),
                                station_name, station_entry)))

\* the loop over stations.items(); station_obj.get raises AttributeError
\* when a station record is not a mapping
RECURSIVE StationLoop(_, _, _)
StationLoop(stations, i, region_map) ==
    IF i > Len(stations.v)
    THEN Return(region_map)
    ELSE LET station_name == stations.v[i][1]
             station_obj == stations.v[i][2]
         IN  IF ~IsDict(station_obj)
             THEN Raise
             ELSE LET region == GetOr(station_obj, "region", Str(DEFAULT_REGION))
                      entry == StationEntry(station_obj)
                  IN  IF entry.raised
                      THEN Raise
                      ELSE LET added == AddStation(region_map, region,
                                                   station_name, entry.value)
                           IN  IF added.raised
                               THEN Raise
                               ELSE StationLoop(stations, i + 1, added.value)

\* faulty variant: the region map replaces the caller's mapping
StoreRegionDataOnly(d, region_map) == Dict(<< <<"region_data", region_map>> >>)

\* data["region_data"] = region_map
StoreRegionData(d, region_map) == SetItem(d, "region_data", region_map)

\* data.setdefault("region_data", {})
DefaultRegionData(d) == SetDefault(d, "region_data", Dict(<<>>))

\* faulty variant: the early return gives back the inner mapping
PassThroughInner(d) == Item(d, "region_data")

\* the early return for an input that already carries a region_data mapping
PassThrough(d) == d

\* The call normalize_loaded_data(d): its outcome (out) and the caller's
\* object after the call (arg), which the function updates in place.
normalize_loaded_data(d) ==
    IF ~IsDict(d)
    THEN [out |-> Return(Dict(<< <<"region_data", Dict(<<>>)>> >>)), arg |-> d]
    ELSE IF Has(d, "region_data") /\ IsDict(Item(d, "region_data"))
         THEN [out |-> Return(PassThrough(d)), arg |-> d]
         ELSE LET stations == Get(d, "stations")
              IN  IF Truthy(stations) /\ IsDict(stations)
                  THEN LET built == StationLoop(stations, 1, Dict(<<>>))
                       IN  IF built.raised
                           THEN [out |-> Raise, arg |-> d]
                           ELSE [out |-> Return(StoreRegionData(d, built.value)),
                                 arg |-> StoreRegionData(d, built.value)]
                  ELSE [out |-> Return(DefaultRegionData(d)),
                        arg |-> DefaultRegionData(d)]

---------------------------------------------------------------------------
(* Bounds and the input domain of the normaliser                           *)

\* most stations in an input's "stations" mapping
MaxStations == 2

StationNames == <<"S1", "S2", "S3", "S4">>

TL0 == List(<<>>)
TL1 == List(<< Str("08:10") >>)
TL2 == List(<< Str("06:40"), Str("21:00") >>)

\* destination labels tried for a route named R: the route name itself,
\* another label, and the label "destinations"
DestLabels(R) == {R, "d1", "destinations"}

\* the values tried for a route named R
RouteValues(R) ==
    {Dict(<< <<"destinations", Dict(<< <<D, L>> >>)>> >>) :
        D \in DestLabels(R), L \in {TL0, TL1}}
    \cup {Dict(<< <<D, L>> >>) : D \in DestLabels(R), L \in {TL0, TL1}}
    \cup {TL0, TL1}
    \cup {Dict(<< <<"destinations", TL1>>, <<"note", Str("x")>> >>),
          Dict(<< <<"destinations", TL1>>, <<"d1", TL2>> >>),
          Dict(<< <<"d1", TL0>>, <<"d2", TL1>> >>),
          Dict(<< <<"destinations", Dict(<< <<"d1", Str("x")>> >>)>> >>),
          Dict(<< <<"destinations", Dict(<<>>)>> >>),
          Dict(<< <<"note", Str("x")>> >>),
          Dict(<<>>), Str("x"), Null}

\* the values tried for a station's "routes" field
RoutesFields ==
    {Dict(<< <<"R1", rv>> >>) : rv \in RouteValues("R1")}
    \cup {Dict(<< <<"R1", rv>>, <<"R2", TL2>> >>) :
            rv \in {TL1, Dict(<< <<"R1", TL1>> >>), Dict(<<>>)}}
    \cup {Dict(<<>>), Null, List(<<>>), List(<< Str("R1") >>), Str("R1")}

Gps == List(<< Str("36.0683"), Str("126.709") >>)

\* the station records tried: well-formed ones, and ones of the wrong type
StationValues ==
    {Dict(<< <<"region", Str("r1")>>, <<"gps", Gps>>, <<"routes", rf>> >>) :
        rf \in RoutesFields}
    \cup {Dict(<< <<"region", Str("r2")>>, <<"gps_info", Gps>>,
                  <<"routes", Dict(<< <<"R1", TL2>> >>)>> >>),
          Dict(<< <<"gpsinfo", Gps>>, <<"routes", Dict(<< <<"R1", TL1>> >>)>> >>),
          Dict(<< <<"region", Str("r1")>>, <<"gps", Str("x")>> >>),
          Dict(<< <<"region", List(<< Str("r1") >>)>>,
                  <<"routes", Dict(<< <<"R1", TL1>> >>)>> >>),
          Dict(<<>>), Null, Str("x"), List(<< Str("x") >>)}

\* the "stations" mapping of the n stations S1..Sn with records f[1]..f[n]
StationMap(n, f) == Dict([i \in 1..n |-> <<StationNames[i], f[i]>>])

Tourism == Dict(<< <<"cat", Dict(<< <<"place", Dict(<<>>)>> >>)>> >>)

\* a canonical station entry whose route table is rt
CanonStation(rt) == Dict(<< <<"gps_info", Gps>>, <<KEY_ROUTES, rt>> >>)

\* region -> station -> entry models, as a file may carry under "region_data"
CanonicalModels ==
    {Dict(<< <<"r1", Dict(<< <<"S1", CanonStation(rt)>> >>)>> >>) :
        rt \in {Dict(<< <<"R1", Dict(<< <<"d1", TL2>> >>)>> >>),
                Dict(<< <<"R1", TL1>> >>),
                Dict(<< <<"R1", Dict(<< <<"d1", TL0>>, <<"d2", TL1>> >>)>> >>),
                Dict(<< <<"R1", Dict(<<>>)>>, <<"R2", Str("x")>> >>),
                Dict(<<>>)}}
    \cup {Dict(<<>>), Dict(<< <<"r1", Dict(<<>>)>> >>),
          Dict(<< <<"r1", Dict(<< <<"S1", Dict(<< <<"gps_info", Gps>> >>)>> >>)>> >>)}

\* a station-centric document with the "stations" mapping st
ShapeBRoot(st) ==
    Dict(<< <<"route_name", Str("n")>>, <<"stations", st>>, <<"tourism", Tourism>> >>)

ShapeARoots ==
    {Dict(<< <<"route_name", Str("n")>>, <<"region_data", c>> >>) :
        c \in CanonicalModels}
    \cup {Dict(<< <<"region_data", Dict(<<>>)>>, <<"stations", StationMap(1, <<sv>>)>> >>) :
            sv \in StationValues}

\* roots with a "region_data" that is no mapping, with no usable "stations",
\* or that are no mapping at all
OtherRoots ==
    {Dict(<< <<"region_data", rd>>, <<"stations", st>> >>) :
        rd \in {Null, List(<<>>)},
        st \in {Dict(<< <<"S1", Dict(<< <<"routes", Dict(<< <<"R1", TL1>> >>)>> >>)>> >>),
                Dict(<< <<"S1", Null>> >>), Dict(<<>>)}}
    \cup {Dict(<<>>), Dict(<< <<"tourism", Tourism>> >>),
          Dict(<< <<"region_data", Null>> >>),
          Dict(<< <<"region_data", Str("x")>>, <<"tourism", Tourism>> >>),
          Dict(<< <<"stations", Dict(<<>>)>> >>),
          Dict(<< <<"stations", List(<< Str("S1") >>)>> >>),
          Null, Str("x"), List(<<>>), List(<< Dict(<<>>) >>)}


---------------------------------------------------------------------------
(* The normaliser called on an arbitrary loaded value, and called again on *)
(* what it returned                                                        *)

NoOutcome == [raised |-> FALSE, value |-> Null]
NoRequest == [mode |-> "", region_name |-> "", station_name |-> "", route_name |-> ""]
NoNow == [year |-> 0, month |-> 0, day |-> 0, hour |-> 0, minute |-> 0, second |-> 0]
NoResult == [display |-> <<>>, label |-> <<>>, has_label |-> FALSE, now_str |-> <<>>]
NoResponse == [status |-> 0, invoked |-> FALSE, timetable |-> <<>>, view |-> NoResult]

Init ==
    /\ data0 = Null
    /\ data = Null
    /\ ret = NoOutcome
    /\ ret2 = NoOutcome
    /\ phase = "start"
    /\ DATA = Null
    /\ request = NoRequest
    /\ response = NoResponse
    /\ timetable_list = <<>>
    /\ now = NoNow
    /\ result = NoResult

\* the document is read: data is the value d that json.loads gave
LoadValue(d) ==
    /\ phase = "start"
    /\ data0' = d
    /\ data' = d
    /\ phase' = "loaded"
    /\ UNCHANGED <<ret, ret2, DATA, request, response, timetable_list, now, result>>

\* the documents tried: station-centric ones of up to MaxStations stations,
\* ones that carry "region_data", and the others
Load ==
    /\ phase = "start"
    /\ \/ \E n \in 1..MaxStations : \E f \in [1..n -> StationValues] :
             LoadValue(ShapeBRoot(StationMap(n, f)))
       \/ \E d \in ShapeARoots \cup OtherRoots : LoadValue(d)

\* normalize_loaded_data(data)
Normalize ==
    /\ phase = "loaded"
    /\ LET r == normalize_loaded_data(data)
       IN  /\ data' = r.arg
           /\ ret' = r.out
    /\ phase' = "normalized"
    /\ UNCHANGED <<data0, ret2, DATA, request, response, timetable_list, now, result>>

\* normalize_loaded_data applied to the value the first call returned; for a
\* mapping root that value is the caller's object itself
Renormalize ==
    /\ phase = "normalized"
    /\ ~ret.raised
    /\ LET r == normalize_loaded_data(ret.value)
       IN  /\ ret2' = r.out
           /\ data' = IF IsDict(data0) THEN r.arg ELSE data
    /\ phase' = "renormalized"
    /\ UNCHANGED <<data0, ret, DATA, request, response, timetable_list, now, result>>

Next == Load \/ Normalize \/ Renormalize

Spec == Init /\ [][Next]_vars

---------------------------------------------------------------------------
(* Properties of the normaliser                                            *)

\* the input takes the early return: it carries a "region_data" mapping
ShapeA(d) == IsDict(d) /\ Has(d, "region_data") /\ IsDict(Item(d, "region_data"))

\* the input takes the "stations" conversion
ShapeB(d) ==
    /\ IsDict(d)
    /\ ~ShapeA(d)
    /\ IsDict(Get(d, "stations"))
    /\ Get(d, "stations").v # <<>>

\* the places <<i, j>> of the routes of a Shape-B input: route j of station i
RoutePlaces(d) ==
    LET stations == Get(d, "stations")
    IN  {<<i, j>> \in (DOMAIN stations.v) \X (1..8) :
            /\ IsDict(stations.v[i][2])
            /\ IsDict(Get(stations.v[i][2], "routes"))
            /\ j \in DOMAIN Get(stations.v[i][2], "routes").v}

SrcStation(d, p) == Get(d, "stations").v[p[1]]
SrcRoute(d, p) == Get(SrcStation(d, p)[2], "routes").v[p[2]]

\* the destination mapping the normalised output holds for the route at p
OutRoute(d, out, p) ==
    LET region == GetOr(SrcStation(d, p)[2], "region", Str(DEFAULT_REGION)).v
        entry == Item(Item(Item(out, "region_data"), region), SrcStation(d, p)[1])
    IN  Item(Item(entry, KEY_ROUTES), SrcRoute(d, p)[1])

\* the three route-value forms, and the <<label, times>> pair each carries
FormNested(robj) ==
    /\ IsDict(robj) /\ Len(robj.v) = 1
    /\ robj.v[1][1] = "destinations"
    /\ IsDict(robj.v[1][2]) /\ Len(robj.v[1][2].v) = 1
    /\ IsList(robj.v[1][2].v[1][2])
FormDirect(robj) ==
    /\ IsDict(robj) /\ Len(robj.v) = 1
    /\ IsList(robj.v[1][2])
FormFlat(robj) == IsList(robj)

Carried(rname, robj) ==
    CASE FormNested(robj) -> robj.v[1][2].v[1]
      [] FormDirect(robj) -> robj.v[1]
      [] FormFlat(robj) -> <<rname, robj>>

Normalized == phase = "normalized" /\ ~ret.raised

\* C1 (as stated): the call never raises, and what it returns carries a
\* "region_data" mapping.
C1_NeverRaises ==
    phase = "normalized" =>
        /\ ~ret.raised
        /\ IsDict(ret.value)
        /\ IsDict(Get(ret.value, "region_data"))

\* C2: every route of a Shape-B input written in one of the three forms
\* ({"destinations": {D: L}}, {D: L}, or the flat list L with D the route
\* name) is normalised to exactly the one-entry mapping {D: L}: the form
\* used cannot be told from the output.
C2_FormsEquivalent ==
    (Normalized /\ ShapeB(data0)) =>
        \A p \in RoutePlaces(data0) :
            LET rname == SrcRoute(data0, p)[1]
                robj == SrcRoute(data0, p)[2]
            IN  (FormNested(robj) \/ FormDirect(robj) \/ FormFlat(robj)) =>
                    OutRoute(data0, ret.value, p) = Dict(<< Carried(rname, robj) >>)

\* C2 witness: two stations carry the same non-empty times for the label R1
\* of route R1, one in the nested form and one as a flat list, and the
\* output holds the same mapping for both.
C2_Witness ==
    /\ Normalized /\ ShapeB(data0)
    /\ \E p, q \in RoutePlaces(data0) :
          /\ p[1] # q[1]
          /\ FormNested(SrcRoute(data0, p)[2])
          /\ FormFlat(SrcRoute(data0, q)[2])
          /\ SrcRoute(data0, q)[2].v # <<>>
          /\ Carried(SrcRoute(data0, p)[1], SrcRoute(data0, p)[2])
                = Carried(SrcRoute(data0, q)[1], SrcRoute(data0, q)[2])
          /\ OutRoute(data0, ret.value, p) = OutRoute(data0, ret.value, q)

\* C6: a second call on what the first call returned returns and gives the
\* same value; an input that already carries a "region_data" mapping is
\* returned as it is.
C6_Idempotent ==
    /\ phase = "renormalized" => (~ret2.raised /\ ret2.value = ret.value)
    /\ (phase # "loaded" /\ ShapeA(data0)) => (~ret.raised /\ ret.value = data0)

\* C6 witness: the second call has run on the result of a "stations"
\* conversion that built a non-empty region map.
C6_Witness ==
    /\ phase = "renormalized"
    /\ ShapeB(data0)
    /\ Item(ret.value, "region_data").v # <<>>

C10_FallbackWrapped ==
    (Normalized /\ ShapeB(data0)) =>
        \A p \in RoutePlaces(data0) :
            LET rname == SrcRoute(data0, p)[1]
                robj == SrcRoute(data0, p)[2]
            IN  (IsDict(robj) /\ IsList(Get(robj, "destinations"))) =>
                    OutRoute(data0, ret.value, p)
                        = Dict(<< <<rname, Get(robj, "destinations")>> >>)

---------------------------------------------------------------------------
(* Text.  A text is a sequence of characters, each a one-character string; *)
(* the Hangul characters and phrases of the source are single tokens in    *)
(* romanised form.  CharsOf spells each string literal the model uses.     *)

\* the marker character the parser cuts at (Hangul "yeok", station)
YEOK == "yeok"

CharsOf ==
    ("06:40" :> <<"0", "6", ":", "4", "0">>)
    @@ ("08:10" :> <<"0", "8", ":", "1", "0">>)
    @@ ("09:50" :> <<"0", "9", ":", "5", "0">>)
    @@ ("21:00" :> <<"2", "1", ":", "0", "0">>)
    @@ ("23:59" :> <<"2", "3", ":", "5", "9">>)
    @@ ("13:20yeok" :> <<"1", "3", ":", "2", "0", YEOK>>)
    @@ (" 8:10 " :> <<" ", "8", ":", "1", "0", " ">>)
    @@ ("bad" :> <<"b", "a", "d">>)
    @@ ("25:99" :> <<"2", "5", ":", "9", "9">>)
    @@ ("24:00" :> <<"2", "4", ":", "0", "0">>)
    @@ ("12:60" :> <<"1", "2", ":", "6", "0">>)
    @@ ("08:10:00" :> <<"0", "8", ":", "1", "0", ":", "0", "0">>)
    @@ ("yeok09:50" :> <<YEOK, "0", "9", ":", "5", "0">>)
    @@ ("ab:10" :> <<"a", "b", ":", "1", "0">>)
    @@ ("-1:30" :> <<"-", "1", ":", "3", "0">>)

\* str(t) for a JSON string t
StrOf(t) == CharsOf[t.v]

DigitValue ==
    ("0" :> 0) @@ ("1" :> 1) @@ ("2" :> 2) @@ ("3" :> 3) @@ ("4" :> 4)
    @@ ("5" :> 5) @@ ("6" :> 6) @@ ("7" :> 7) @@ ("8" :> 8) @@ ("9" :> 9)
DigitChar == <<"0", "1", "2", "3", "4", "5", "6", "7", "8", "9">>

IsSpace(c) == c = " "

\* s.split(sep)[0]: the text before the first sep, all of s when it has none
SplitFirst(s, sep) ==
    IF \E i \in DOMAIN s : s[i] = sep
    THEN SubSeq(s, 1, (CHOOSE i \in DOMAIN s :
                          /\ s[i] = sep
                          /\ \A j \in 1..(i - 1) : s[j] # sep) - 1)
    ELSE s

\* s.strip()
Strip(s) ==
    IF \A i \in DOMAIN s : IsSpace(s[i])
    THEN <<>>
    ELSE LET first == CHOOSE i \in DOMAIN s :
                          ~IsSpace(s[i]) /\ \A j \in 1..(i - 1) : IsSpace(s[j])
             last == CHOOSE i \in DOMAIN s :
                          ~IsSpace(s[i]) /\ \A j \in (i + 1)..Len(s) : IsSpace(s[j])
         IN  SubSeq(s, first, last)

\* s.split(sep): the fields between the separators
RECURSIVE Split(_, _)
Split(s, sep) ==
    IF \E i \in DOMAIN s : s[i] = sep
    THEN <<SplitFirst(s, sep)>>
            \o Split(SubSeq(s, Len(SplitFirst(s, sep)) + 2, Len(s)), sep)
    ELSE <<s>>

RECURSIVE DigitsValue(_)
DigitsValue(ds) ==
    IF ds = <<>> THEN 0
    ELSE 10 * DigitsValue(SubSeq(ds, 1, Len(ds) - 1)) + DigitValue[ds[Len(ds)]]

\* int(s): blanks around, an optional sign, then decimal digits; ValueError
\* (ok = FALSE) otherwise
ParseInt(s) ==
    LET body == Strip(s)
        signed == body # <<>> /\ body[1] \in {"+", "-"}
        ds == IF signed THEN Tail(body) ELSE body
    IN  IF ds # <<>> /\ \A i \in DOMAIN ds : ds[i] \in DOMAIN DigitValue
        THEN [ok |-> TRUE,
              val |-> IF signed /\ body[1] = "-" THEN 0 - DigitsValue(ds)
                      ELSE DigitsValue(ds)]
        ELSE [ok |-> FALSE, val |-> 0]

\* the decimal digits of n >= 0, as "%d" and f"{n}" write them
RECURSIVE Dec(_)
Dec(n) == IF n < 10 THEN <<DigitChar[n + 1]>> ELSE Dec(n \div 10) \o <<DigitChar[(n % 10) + 1]>>

\* n written with at least w digits, zero-padded ("%02d", "%04d")
RECURSIVE Pad(_, _)
Pad(ds, w) == IF Len(ds) >= w THEN ds ELSE Pad(<<"0">> \o ds, w)

---------------------------------------------------------------------------
(* calculate_next_bus                                                      *)

\* seconds in a civil day (datetime.timedelta(days=1)); Asia/Seoul has no
\* daylight-saving transitions
DAY_SECONDS == 86400

\* an instant of the day of now, in seconds after that day's midnight
Instant(h, m, sec) == h * 3600 + m * 60 + sec

NowInstant(n) == Instant(n.hour, n.minute, n.second)

\* clean = str(t).split(YEOK)[0].strip()
Clean(t) == Strip(SplitFirst(StrOf(t), YEOK))

\* The body of the try block for one entry: the parsed entry (dt, clean),
\* or ok = FALSE when int() or datetime() raises ValueError.
ParseEntry(t) ==
    LET clean == Clean(t)
        fields == Split(clean, ":")
    IN  IF Len(fields) # 2
        THEN [ok |-> FALSE, dt |-> 0, label |-> clean]
        ELSE LET h == ParseInt(fields[1])
                 m == ParseInt(fields[2])
             IN  IF h.ok /\ m.ok /\ h.val \in 0..23 /\ m.val \in 0..59
                 THEN [ok |-> TRUE, dt |-> Instant(h.val, m.val, 0), label |-> clean]
                 ELSE [ok |-> FALSE, dt |-> 0, label |-> clean]

\* faulty variant: the loop gives up at the first entry that fails to parse
RECURSIVE ParseLoopAbort(_, _, _)
ParseLoopAbort(list, i, parsed_entries) ==
    IF i > Len(list)
    THEN parsed_entries
    ELSE LET e == ParseEntry(list[i])
         IN  IF e.ok
             THEN ParseLoopAbort(list, i + 1,
                                 Append(parsed_entries, [dt |-> e.dt, label |-> e.label]))
             ELSE parsed_entries

\* the loop over timetable_list: the parsed entries, in input order; an
\* entry that raises is skipped (continue)
RECURSIVE ParseLoop(_, _, _)
ParseLoop(list, i, parsed_entries) ==
    IF i > Len(list)
    THEN parsed_entries
    ELSE LET e == ParseEntry(list[i])
         IN  ParseLoop(list, i + 1,
                       IF e.ok THEN Append(parsed_entries, [dt |-> e.dt, label |-> e.label])
                       ELSE parsed_entries)

\* list.sort(key = dt): stable, ascending
RECURSIVE InsertSorted(_, _)
InsertSorted(sorted, e) ==
    IF sorted = <<>> THEN <<e>>
    ELSE IF sorted[Len(sorted)].dt <= e.dt
         THEN Append(sorted, e)
         ELSE Append(InsertSorted(SubSeq(sorted, 1, Len(sorted) - 1), e),
                     sorted[Len(sorted)])

\* faulty variant: the entries are left in input order
Unsorted(entries) == entries

RECURSIVE SortEntries(_)
SortEntries(entries) ==
    IF entries = <<>> THEN <<>>
    ELSE InsertSorted(SortEntries(SubSeq(entries, 1, Len(entries) - 1)),
                      entries[Len(entries)])

\* faulty variant: a departure at the very instant of now counts as later
IsLaterOrNow(dt, n) == dt >= NowInstant(n)

\* dt > now
IsLater(dt, n) == dt > NowInstant(n)

\* int((dt - now).total_seconds() // 60)
MinutesUntil(dt, n) == (dt - NowInstant(n)) \div 60

\* now.strftime("%Y<nyeon> %m<wol> %d<il> %H<si> %M<bun> %S<cho>")
FormatNow(n) ==
    Pad(Dec(n.year), 4) \o <<"nyeon", " ">> \o Pad(Dec(n.month), 2) \o <<"wol", " ">>
    \o Pad(Dec(n.day), 2) \o <<"il", " ">> \o Pad(Dec(n.hour), 2) \o <<"si", " ">>
    \o Pad(Dec(n.minute), 2) \o <<"bun", " ">> \o Pad(Dec(n.second), 2) \o <<"cho">>

\* the three display strings (Hangul phrases as romanised tokens)
NextDisplay(mins, orig_str) ==
    <<"daeum beoseukkaji yak ">> \o Dec(mins) \o <<"bun nameum (">> \o orig_str
    \o <<" chulbal)">>
EndedDisplay(mins, first_str) ==
    <<"oneul unhaeng jongnyo - naeil cheotcha ">> \o first_str \o <<"kkaji yak ">>
    \o Dec(mins) \o <<"bun nameum">>
NoScheduleDisplay == <<"deungnokdoen siganpyoga eopsseumnida.">>

\* the service-ended branch: tomorrow's first departure
Tomorrow(parsed_entries, n) ==
    LET first == parsed_entries[1]
        tomorrow_dt == first.dt + DAY_SECONDS
    IN  [display |-> EndedDisplay(MinutesUntil(tomorrow_dt, n), first.label),
         label |-> first.label, has_label |-> TRUE, now_str |-> FormatNow(n)]

\* faulty variant: the no-candidate return carries no rendering of now
NoScheduleNoClock(n) ==
    [display |-> NoScheduleDisplay, label |-> <<>>, has_label |-> FALSE,
     now_str |-> <<>>]

\* the no-candidate return: no label (None)
NoSchedule(n) ==
    [display |-> NoScheduleDisplay, label |-> <<>>, has_label |-> FALSE,
     now_str |-> FormatNow(n)]

\* the scan of the sorted entries for the first one later than now
RECURSIVE Scan(_, _, _)
Scan(parsed_entries, i, n) ==
    IF i > Len(parsed_entries)
    THEN IF parsed_entries # <<>>
         THEN Tomorrow(parsed_entries, n)
         ELSE NoSchedule(n)
    ELSE IF IsLater(parsed_entries[i].dt, n)
         THEN [display |-> NextDisplay(MinutesUntil(parsed_entries[i].dt, n),
                                       parsed_entries[i].label),
               label |-> parsed_entries[i].label, has_label |-> TRUE,
               now_str |-> FormatNow(n)]
         ELSE Scan(parsed_entries, i + 1, n)

\* calculate_next_bus(list), with n the clock value datetime.now reads
calculate_next_bus(list, n) ==
    Scan(SortEntries(ParseLoop(list, 1, <<>>)), 1, n)

---------------------------------------------------------------------------
(* The calculator called on an arbitrary list of time strings              *)

\* most entries in a time list
MaxLen == 3

TimeTexts == DOMAIN CharsOf

TimeLists == UNION {[1..k -> {Str(x) : x \in TimeTexts}] : k \in 0..MaxLen}

At(h, m, sec) ==
    [year |-> 2026, month |-> 3, day |-> 9, hour |-> h, minute |-> m, second |-> sec]

\* the clock values tried
Nows == {At(7, 0, 0), At(8, 9, 30), At(8, 10, 0), At(9, 0, 0), At(10, 0, 0),
         At(23, 0, 0)}

InitCalc ==
    /\ timetable_list = <<>>
    /\ now \in Nows
    /\ result = NoResult
    /\ phase = "idle"
    /\ data0 = Null
    /\ data = Null
    /\ ret = NoOutcome
    /\ ret2 = NoOutcome
    /\ DATA = Null
    /\ request = NoRequest
    /\ response = NoResponse

\* calculate_next_bus(list), called when the clock reads now
Calculate(list) ==
    /\ phase = "idle"
    /\ timetable_list' = list
    /\ result' = calculate_next_bus(list, now)
    /\ phase' = "calculated"
    /\ UNCHANGED <<data0, data, ret, ret2, DATA, request, response, now>>

NextCalc == phase = "idle" /\ \E list \in TimeLists : Calculate(list)

SpecCalc == InitCalc /\ [][NextCalc]_vars

---------------------------------------------------------------------------
(* Properties of the calculator                                            *)

\* What each time string is, read by hand: whether it is a well-formed
\* time of day (after the cut at the marker and the trim: exactly two
\* numeric fields, hour 0..23, minute 0..59), its hour and minute, and its
\* cleaned text.
Expected ==
    ("06:40" :> [ok |-> TRUE, h |-> 6, m |-> 40, label |-> <<"0", "6", ":", "4", "0">>])
    @@ ("08:10" :> [ok |-> TRUE, h |-> 8, m |-> 10, label |-> <<"0", "8", ":", "1", "0">>])
    @@ ("09:50" :> [ok |-> TRUE, h |-> 9, m |-> 50, label |-> <<"0", "9", ":", "5", "0">>])
    @@ ("21:00" :> [ok |-> TRUE, h |-> 21, m |-> 0, label |-> <<"2", "1", ":", "0", "0">>])
    @@ ("23:59" :> [ok |-> TRUE, h |-> 23, m |-> 59, label |-> <<"2", "3", ":", "5", "9">>])
    @@ ("13:20yeok" :> [ok |-> TRUE, h |-> 13, m |-> 20, label |-> <<"1", "3", ":", "2", "0">>])
    @@ (" 8:10 " :> [ok |-> TRUE, h |-> 8, m |-> 10, label |-> <<"8", ":", "1", "0">>])
    @@ ("bad" :> [ok |-> FALSE, h |-> 0, m |-> 0, label |-> <<>>])
    @@ ("25:99" :> [ok |-> FALSE, h |-> 0, m |-> 0, label |-> <<>>])
    @@ ("24:00" :> [ok |-> FALSE, h |-> 0, m |-> 0, label |-> <<>>])
    @@ ("12:60" :> [ok |-> FALSE, h |-> 0, m |-> 0, label |-> <<>>])
    @@ ("08:10:00" :> [ok |-> FALSE, h |-> 0, m |-> 0, label |-> <<>>])
    @@ ("yeok09:50" :> [ok |-> FALSE, h |-> 0, m |-> 0, label |-> <<>>])
    @@ ("ab:10" :> [ok |-> FALSE, h |-> 0, m |-> 0, label |-> <<>>])
    @@ ("-1:30" :> [ok |-> FALSE, h |-> 0, m |-> 0, label |-> <<>>])

Calculated == phase = "calculated"

\* the well-formed entries of the list, and the instant each names today
WellFormed == {i \in DOMAIN timetable_list : Expected[timetable_list[i].v].ok}
Candidate(i) ==
    Expected[timetable_list[i].v].h * 3600 + Expected[timetable_list[i].v].m * 60
LabelAt(i) == Expected[timetable_list[i].v].label
SecondsNow == now.hour * 3600 + now.minute * 60 + now.second
LaterToday == {i \in WellFormed : Candidate(i) > SecondsNow}

\* C3: when some well-formed entry names an instant of today strictly later
\* than now, the result is for an earliest such entry: its cleaned text is
\* the label, and the display gives floor(seconds until it / 60) minutes.
\* "13:20<yeok>" at 10:00 gives the label "13:20".
C3_NextToday ==
    /\ (Calculated /\ LaterToday # {}) =>
          \E i \in LaterToday :
              /\ \A j \in LaterToday : Candidate(i) <= Candidate(j)
              /\ result.has_label
              /\ result.label = LabelAt(i)
              /\ result.display
                    = NextDisplay((Candidate(i) - SecondsNow) \div 60, LabelAt(i))
    /\ (Calculated /\ timetable_list = << Str("13:20yeok") >> /\ now = At(10, 0, 0)) =>
          result.label = <<"1", "3", ":", "2", "0">>

\* C3 witness: at 08:10:00 the list holds 08:10 itself and a later entry
\* with a trailing marker; the later entry is chosen, 310 minutes away.
C3_Witness ==
    /\ Calculated
    /\ timetable_list = << Str("08:10"), Str("13:20yeok") >>
    /\ now = At(8, 10, 0)
    /\ result.label = <<"1", "3", ":", "2", "0">>
    /\ result.display = NextDisplay(310, <<"1", "3", ":", "2", "0">>)

\* C4: when there are well-formed entries and none is strictly later than
\* now, the result is the service-ended description for an earliest entry
\* of the day, with floor(seconds until that instant tomorrow / 60)
\* minutes.  ["06:40", "21:00"] at 23:00 gives "06:40" and 460 minutes.
C4_Rollover ==
    /\ (Calculated /\ WellFormed # {} /\ LaterToday = {}) =>
          \E i \in WellFormed :
              /\ \A j \in WellFormed : Candidate(i) <= Candidate(j)
              /\ result.has_label
              /\ result.label = LabelAt(i)
              /\ result.display
                    = EndedDisplay((Candidate(i) + 24 * 3600 - SecondsNow) \div 60,
                                   LabelAt(i))
    /\ (Calculated /\ timetable_list = << Str("06:40"), Str("21:00") >>
            /\ now = At(23, 0, 0)) =>
          result.display = EndedDisplay(460, <<"0", "6", ":", "4", "0">>)

\* C4 witness: at 23:00 every departure of ["21:00", "06:40"] has passed,
\* and the result is tomorrow's 06:40, 460 minutes away.
C4_Witness ==
    /\ Calculated
    /\ timetable_list = << Str("21:00"), Str("06:40") >>
    /\ now = At(23, 0, 0)
    /\ result.label = <<"0", "6", ":", "4", "0">>
    /\ result.display = EndedDisplay(460, <<"0", "6", ":", "4", "0">>)

\* the list with its malformed entries removed
WellFormedOnly == SelectSeq(timetable_list, LAMBDA t : Expected[t.v].ok)

\* C5: the malformed entries are dropped: the parsed entries are as many as
\* the well-formed ones, and the result is the result for the list with the
\* malformed entries removed.
C5_MalformedDiscarded ==
    Calculated =>
        /\ Len(ParseLoop(timetable_list, 1, <<>>)) = Cardinality(WellFormed)
        /\ result = calculate_next_bus(WellFormedOnly, now)

\* C5 witness: ["bad", "25:99", "08:10"] at 07:00 gives the label "08:10".
C5_Witness ==
    /\ Calculated
    /\ timetable_list = << Str("bad"), Str("25:99"), Str("08:10") >>
    /\ now = At(7, 0, 0)
    /\ result.label = <<"0", "8", ":", "1", "0">>
    /\ result.display = NextDisplay(70, <<"0", "8", ":", "1", "0">>)

\* C7: with no well-formed entry the result is the no-schedule description
\* with no label; and whatever the outcome, the third component is a
\* non-empty rendering of now (at 07:00:00 on 2026-03-09, that date and
\* time).
C7_NoSchedule ==
    Calculated =>
        /\ WellFormed = {} =>
              (result.display = NoScheduleDisplay /\ ~result.has_label)
        /\ Len(result.now_str) > 0
        /\ now = At(7, 0, 0) =>
              result.now_str
                 = <<"2", "0", "2", "6", "nyeon", " ", "0", "3", "wol", " ",
                     "0", "9", "il", " ", "0", "7", "si", " ", "0", "0", "bun", " ",
                     "0", "0", "cho">>

\* C7 witness: a list of malformed entries only gives the no-schedule
\* result, with the clock rendered.
C7_Witness ==
    /\ Calculated
    /\ timetable_list = << Str("bad"), Str("24:00") >>
    /\ result.display = NoScheduleDisplay
    /\ ~result.has_label
    /\ Len(result.now_str) > 0

---------------------------------------------------------------------------
(* Start-up and show_timetable_with_mode                                   *)

\* abort(404): calculate_next_bus is not reached
NotFound == [status |-> 404, invoked |-> FALSE, timetable |-> <<>>, view |-> NoResult]

\* the rendered timetable view, after calculate_next_bus(timetable_list)
Rendered(timetable, n) ==
    [status |-> 200, invoked |-> TRUE, timetable |-> timetable,
     view |-> calculate_next_bus(timetable, n)]

\* the time list resolved for a route value: a mapping gives its first
\* destination's value when that is a list, a list gives itself
ResolveTimetable(route_obj) ==
    IF IsDict(route_obj)
    THEN LET first_destination == Values(route_obj)[1]
         IN  IF IsList(first_destination) THEN first_destination.v ELSE <<>>
    ELSE IF IsList(route_obj)
         THEN route_obj.v
         ELSE <<>>

\* faulty variant: an empty time list is not reported as missing
NeverMissing(timetable) == FALSE

\* if not timetable_list: abort(404)
MissingTimetable(timetable) == timetable = <<>>

\* The handler for /timetable/<mode>/<region_name>/<station_name>/<route_name>
\* against the loaded model D, with n the clock value.
show_timetable_with_mode(D, req, n) ==
    IF req.mode # "transport"
    THEN NotFound
    ELSE LET region_data == Get(GetOr(D, "region_data", Dict(<<>>)), req.region_name)
         IN  IF ~Truthy(region_data) \/ ~Has(region_data, req.station_name)
             THEN NotFound
             ELSE LET station_data == Item(region_data, req.station_name)
                      route_obj == Get(GetOr(station_data, KEY_ROUTES, Dict(<<>>)),
                                       req.route_name)
                  IN  IF ~Truthy(route_obj)
                      THEN NotFound
                      ELSE IF MissingTimetable(ResolveTimetable(route_obj))
                           THEN NotFound
                           ELSE Rendered(ResolveTimetable(route_obj), n)

\* the station records tried by the serving model
ServeStationValues ==
    {Dict(<< <<"region", Str("r1")>>, <<"gps", Gps>>, <<"routes", rf>> >>) :
        rf \in {Dict(<< <<"R1", Dict(<< <<"destinations", Dict(<< <<"d1", TL2>> >>)>> >>)>> >>),
                Dict(<< <<"R1", TL1>>, <<"R2", TL0>> >>),
                Dict(<< <<"R1", Dict(<< <<"destinations", TL1>> >>)>> >>),
                Dict(<< <<"R1", Dict(<< <<"d1", TL0>>, <<"d2", TL1>> >>)>>,
                        <<"R2", Dict(<< <<"d1", TL1>>, <<"d2", TL0>> >>)>> >>),
                Dict(<< <<"R1", Dict(<< <<"destinations", Dict(<< <<"d1", Str("x")>> >>)>> >>)>>,
                        <<"R2", Str("x")>> >>),
                Dict(<<>>)}}
    \cup {Dict(<< <<"routes", Dict(<< <<"R1", TL2>> >>)>> >>), Null}

\* the documents the server is started on, besides the station-centric ones
ServeOtherInputs ==
    ShapeARoots \cup {Dict(<<>>), Dict(<< <<"region_data", Null>> >>), List(<<>>)}

Requests ==
    [mode : {"transport", "tourism"}, region_name : {"r1", DEFAULT_REGION, "zz"},
     station_name : {"S1", "S2", "zz"}, route_name : {"R1", "R2", "zz"}]

\* the clock values tried by the serving model
ServeNows == {At(9, 0, 0), At(23, 0, 0)}

InitServe ==
    /\ DATA = Null
    /\ phase = "start"
    /\ request = NoRequest
    /\ response = NoResponse
    /\ data0 = Null
    /\ data = Null
    /\ ret = NoOutcome
    /\ ret2 = NoOutcome
    /\ timetable_list = <<>>
    /\ now = NoNow
    /\ result = NoResult

\* the document is read: DATA is the value d that json.loads gave
LoadDataValue(d) ==
    /\ phase = "start"
    /\ DATA' = d
    /\ phase' = "loaded"
    /\ UNCHANGED <<data0, data, ret, ret2, request, response, timetable_list, now, result>>

LoadData ==
    /\ phase = "start"
    /\ \/ \E n \in 1..MaxStations : \E f \in [1..n -> ServeStationValues] :
             LoadDataValue(ShapeBRoot(StationMap(n, f)))
       \/ \E d \in ServeOtherInputs : LoadDataValue(d)

\* Module start-up: DATA = normalize_loaded_data(DATA), then the debug line
\* list(DATA.get("region_data", {}).keys()).  An exception from either ends
\* the process before it serves.
Startup ==
    /\ phase = "loaded"
    /\ LET r == normalize_loaded_data(DATA).out
       IN  IF r.raised \/ ~IsDict(GetOr(r.value, "region_data", Dict(<<>>)))
           THEN /\ phase' = "crashed"
                /\ DATA' = DATA
           ELSE /\ phase' = "serving"
                /\ DATA' = r.value
    /\ UNCHANGED <<data0, data, ret, ret2, request, response, timetable_list, now, result>>

\* one timetable request, handled to its response
ShowTimetable(req, n) ==
    /\ phase = "serving"
    /\ request' = req
    /\ response' = show_timetable_with_mode(DATA, req, n)
    /\ UNCHANGED <<data0, data, ret, ret2, phase, DATA, timetable_list, now, result>>

NextServe ==
    \/ LoadData
    \/ Startup
    \/ phase = "serving" /\ \E req \in Requests, n \in ServeNows : ShowTimetable(req, n)

SpecServe == InitServe /\ [][NextServe]_vars

---------------------------------------------------------------------------
(* Properties of the timetable handler                                     *)

Answered == phase = "serving" /\ response.status # 0

Regions == Item(DATA, "region_data")
RegionAbsent == ~Has(Regions, request.region_name)
StationAbsent ==
    ~RegionAbsent /\ ~Has(Item(Regions, request.region_name), request.station_name)
\* the route table of the requested station, when region and station exist
RouteTable ==
    GetOr(Item(Item(Regions, request.region_name), request.station_name),
          KEY_ROUTES, Dict(<<>>))
RouteAbsent == ~RegionAbsent /\ ~StationAbsent /\ ~Has(RouteTable, request.route_name)
RoutePresent == ~RegionAbsent /\ ~StationAbsent /\ Has(RouteTable, request.route_name)
RequestedRoute == Item(RouteTable, request.route_name)

\* the requested route resolves to no time list, or to an empty one: as a
\* mapping it has no destination or its first destination holds no
\* non-empty list; as a list it is empty; or it is neither
ResolvedEmpty ==
    /\ RoutePresent
    /\ \/ /\ IsDict(RequestedRoute)
          /\ \/ RequestedRoute.v = <<>>
             \/ ~IsList(RequestedRoute.v[1][2])
             \/ RequestedRoute.v[1][2].v = <<>>
       \/ IsList(RequestedRoute) /\ RequestedRoute.v = <<>>
       \/ ~IsDict(RequestedRoute) /\ ~IsList(RequestedRoute)

\* a miss is answered 404 without calling calculate_next_bus
MissesAreNotFound ==
    /\ response.status \in {200, 404}
    /\ response.invoked <=> response.status = 200
    /\ (RegionAbsent \/ StationAbsent \/ RouteAbsent \/ ResolvedEmpty) =>
          response.status = 404

\* the list handed to calculate_next_bus is a destination's list
OfADestination ==
    /\ IsDict(RequestedRoute)
    /\ \E i \in DOMAIN RequestedRoute.v :
          /\ IsList(RequestedRoute.v[i][2])
          /\ response.timetable = RequestedRoute.v[i][2].v

=============================================================================
